---- MODULE Spec2Model ----
(***************************************************************************)
(* State-machine model of bmi_gui_app.py: the SQLite store (users,         *)
(* records), the BMI domain functions, and the BMIApp callbacks with the   *)
(* widgets they repaint.                                                   *)
(*                                                                         *)
(* Numbers.  Python floats are modelled as exact decimal rationals         *)
(*     n/d * 10^e   (d coprime to 10, gcd(n,d) = 1, 10 does not divide n)  *)
(* plus nan, +inf and -inf.  The binary64 range is kept (overflow and      *)
(* underflow of ** and /), the rounding of inexact quotients is not: the   *)
(* model keeps the exact quotient.  The sign of zero is not kept.          *)
(*                                                                         *)
(* Text.  Entry texts are sequences of one-character strings over the      *)
(* alphabet  space + - . 0-9 e n a i f  and letters that make a text       *)
(* non-numeric.                                                            *)
(***************************************************************************)
EXTENDS Integers, Sequences, FiniteSets

VARIABLES
    users,            \* table users: set of [id, name]
    records,          \* table records: set of [id, user_id, date, weight_kg, height_m, bmi, category]
    user_seq,         \* sqlite_sequence row of users (AUTOINCREMENT high-water mark)
    record_seq,       \* sqlite_sequence row of records
    pandas_available, \* PANDAS_AVAILABLE
    user_combo_var,   \* the selected user name (<<>> when none)
    combo_values,     \* user_combo['values']
    tree,             \* rows of the history Treeview
    stat_mean, stat_min, stat_max,   \* the three summary labels
    plot,             \* the points drawn on the trend chart (<<>>: "No user selected")
    result_str, cat_str,             \* the two result labels
    outcome,          \* how the last callback ended: dialog shown, exception, file written
    probe             \* a direct call of a domain function and what it returned

vars == <<users, records, user_seq, record_seq, pandas_available, user_combo_var,
          combo_values, tree, stat_mean, stat_min, stat_max, plot, result_str,
          cat_str, outcome, probe>>

storeVars == <<users, records, user_seq, record_seq>>
viewVars == <<user_combo_var, combo_values, tree, stat_mean, stat_min, stat_max, plot>>
labelVars == <<result_str, cat_str>>

-----------------------------------------------------------------------------
(* Bounds of the model *)

MaxUsers == 2        \* user rows ever inserted
MaxRecords == 2      \* record rows ever inserted
MaxClock == 1        \* datetime.now() yields a second in 0..MaxClock
MaxGrid == 8         \* SpecFn: heights are the quarters -2/4 .. MaxGrid/4
MaxWeight == 6       \* SpecFn: weights are the tens -20 .. 10*MaxWeight

-----------------------------------------------------------------------------
(* Python float: values *)

MAX_10_EXP == 308    \* largest decimal order of magnitude of a finite binary64
MIN_10_EXP == -324   \* decimal order of magnitude of the smallest subnormal

Abs(i) == IF i < 0 THEN -i ELSE i

RECURSIVE Gcd(_, _)
Gcd(a, b) == IF b = 0 THEN a ELSE Gcd(b, a % b)

RECURSIVE Pow10(_)
Pow10(k) == IF k <= 0 THEN 1 ELSE 10 * Pow10(k - 1)

NaN == [k |-> "nan", n |-> 0, d |-> 1, e |-> 0]
Inf(s) == [k |-> "inf", n |-> s, d |-> 1, e |-> 0]
Zero == [k |-> "fin", n |-> 0, d |-> 1, e |-> 0]

RECURSIVE PullTwos(_, _, _)
PullTwos(n, d, e) ==
    IF d % 2 = 0 THEN PullTwos(5 * n, d \div 2, e - 1) ELSE <<n, d, e>>

RECURSIVE PullFives(_, _, _)
PullFives(n, d, e) ==
    IF d % 5 = 0 THEN PullFives(2 * n, d \div 5, e - 1) ELSE <<n, d, e>>

RECURSIVE PushTens(_, _, _)
PushTens(n, d, e) ==
    IF n % 10 = 0 THEN PushTens(n \div 10, d, e + 1) ELSE <<n, d, e>>

Fin(t) == [k |-> "fin", n |-> t[1], d |-> t[2], e |-> t[3]]
Tens(t) == PushTens(t[1], t[2], t[3])
Fives(t) == PullFives(t[1], t[2], t[3])
Lowest(n, d, g, e) == PullTwos(n \div g, d \div g, e)

\* The canonical form of n/d * 10^e (d # 0): equal values are equal records.
Norm(n, d, e) ==
    IF n = 0 THEN Zero
    ELSE IF d < 0 THEN Fin(Tens(Fives(Lowest(-n, -d, Gcd(Abs(n), Abs(d)), e))))
    ELSE Fin(Tens(Fives(Lowest(n, d, Gcd(Abs(n), Abs(d)), e))))

\* floor(log10(n/d)) for n, d > 0
RECURSIVE ILog10(_, _)
ILog10(n, d) ==
    IF n >= 10 * d THEN 1 + ILog10(n, 10 * d)
    ELSE IF n < d THEN ILog10(10 * n, d) - 1
    ELSE 0

\* Decimal order of magnitude of a finite non-zero value
Order10(x) == x.e + ILog10(Abs(x.n), x.d)

Sign(x) == IF x.n > 0 THEN 1 ELSE IF x.n < 0 THEN -1 ELSE 0

Overflows(x) == x.k = "fin" /\ x.n # 0 /\ Order10(x) > MAX_10_EXP
Underflows(x) == x.k = "fin" /\ x.n # 0 /\ Order10(x) < MIN_10_EXP

Neg(x) == IF x.k = "nan" THEN x ELSE [x EXCEPT !.n = -x.n]

-----------------------------------------------------------------------------
(* Python float: operations.  An operation that can raise returns          *)
(* [exc |-> name of the exception or "none", v |-> the value].             *)

Ok(v) == [exc |-> "none", v |-> v]
Raise(name) == [exc |-> name, v |-> NaN]

Min(i, j) == IF i < j THEN i ELSE j

\* a < b for finite a, b > 0
PosLtAt(a, b, m) == a.n * Pow10(a.e - m) * b.d < b.n * Pow10(b.e - m) * a.d

PosLtBy(a, b, oa, ob) == IF oa # ob THEN oa < ob ELSE PosLtAt(a, b, Min(a.e, b.e))

PosLt(a, b) == PosLtBy(a, b, Order10(a), Order10(b))

FinLt(a, b) ==
    IF Sign(a) # Sign(b) THEN Sign(a) < Sign(b)
    ELSE IF Sign(a) = 0 THEN FALSE
    ELSE IF Sign(a) > 0 THEN PosLt(a, b)
    ELSE PosLt(Neg(b), Neg(a))

\* float.__lt__: every comparison with nan is False
Lt(a, b) ==
    IF a.k = "nan" \/ b.k = "nan" THEN FALSE
    ELSE IF a.k = "inf" THEN a.n < 0 /\ b # a
    ELSE IF b.k = "inf" THEN b.n > 0
    ELSE FinLt(a, b)

\* float.__eq__
Eq(a, b) == a.k # "nan" /\ b.k # "nan" /\ a = b

\* float.__le__
Le(a, b) == Lt(a, b) \/ Eq(a, b)

\* float.__pow__(x, 2): overflow raises OverflowError, underflow gives 0.0
PowRange(r) ==
    IF Overflows(r) THEN Raise("OverflowError")
    ELSE IF Underflows(r) THEN Ok(Zero)
    ELSE Ok(r)

Square(x) ==
    IF x.k = "nan" THEN Ok(NaN)
    ELSE IF x.k = "inf" THEN Ok(Inf(1))
    ELSE PowRange(Norm(x.n * x.n, x.d * x.d, 2 * x.e))

\* float.__truediv__: a zero divisor raises ZeroDivisionError, overflow gives inf
DivRange(r) ==
    IF Overflows(r) THEN Ok(Inf(Sign(r)))
    ELSE IF Underflows(r) THEN Ok(Zero)
    ELSE Ok(r)

Div(a, b) ==
    IF b = Zero THEN Raise("ZeroDivisionError")
    ELSE IF a.k = "nan" \/ b.k = "nan" THEN Ok(NaN)
    ELSE IF a.k = "inf"
         THEN IF b.k = "inf" THEN Ok(NaN) ELSE Ok(Inf(a.n * Sign(b)))
    ELSE IF b.k = "inf" THEN Ok(Zero)
    ELSE DivRange(Norm(a.n * b.d, a.d * b.n, a.e - b.e))

AddAt(a, b, m) ==
    Norm(a.n * Pow10(a.e - m) * b.d + b.n * Pow10(b.e - m) * a.d, a.d * b.d, m)

\* a + b, exact
Add(a, b) ==
    IF a.k = "nan" \/ b.k = "nan" THEN NaN
    ELSE IF a.k = "inf" THEN (IF b.k = "inf" /\ b.n # a.n THEN NaN ELSE a)
    ELSE IF b.k = "inf" THEN b
    ELSE AddAt(a, b, Min(a.e, b.e))

RECURSIVE Sum(_)
Sum(xs) == IF xs = <<>> THEN Zero ELSE Add(Head(xs), Sum(Tail(xs)))

\* statistics.mean of a non-empty list of floats: the exact sum over the count
Over(s, count) == IF s.k # "fin" THEN s ELSE Norm(s.n, s.d * count, s.e)

Mean(xs) == Over(Sum(xs), Len(xs))

\* min and max keep the first of equal items
Smaller(first, rest) == IF Lt(rest, first) THEN rest ELSE first
Larger(first, rest) == IF Lt(first, rest) THEN rest ELSE first

RECURSIVE MinOf(_)
MinOf(xs) == IF Len(xs) = 1 THEN Head(xs) ELSE Smaller(Head(xs), MinOf(Tail(xs)))

RECURSIVE MaxOf(_)
MaxOf(xs) == IF Len(xs) = 1 THEN Head(xs) ELSE Larger(Head(xs), MaxOf(Tail(xs)))

\* num/den (den > 0) rounded to the nearest integer, ties to even
RoundUp(f, r, den) ==
    IF 2 * r < den THEN f
    ELSE IF 2 * r > den THEN f + 1
    ELSE IF f % 2 = 0 THEN f ELSE f + 1

RoundHalfEven(num, den) == RoundUp(num \div den, num % den, den)

\* format(x, ".<p>f"): the text of x with p decimals, kept as the integer
\* number of 10^-p units it shows
Fmt(x, p) ==
    IF x.k = "nan" THEN [txt |-> "nan", units |-> 0]
    ELSE IF x.k = "inf" THEN [txt |-> IF x.n > 0 THEN "inf" ELSE "-inf", units |-> 0]
    ELSE [txt |-> "fixed",
          units |-> IF x.e + p >= 0
                    THEN RoundHalfEven(x.n * Pow10(x.e + p), x.d)
                    ELSE RoundHalfEven(x.n, x.d * Pow10(-(x.e + p)))]

Fmt2(x) == Fmt(x, 2)

NA == [txt |-> "N/A", units |-> 0]

-----------------------------------------------------------------------------
(* Text: str.strip() and float(text) *)

RECURSIVE StripLeft(_)
StripLeft(s) == IF s # <<>> /\ Head(s) = " " THEN StripLeft(Tail(s)) ELSE s

RECURSIVE StripRight(_)
StripRight(s) ==
    IF s # <<>> /\ s[Len(s)] = " " THEN StripRight(SubSeq(s, 1, Len(s) - 1)) ELSE s

\* str.strip()
Strip(s) == StripRight(StripLeft(s))

Digits == <<"0", "1", "2", "3", "4", "5", "6", "7", "8", "9">>

IsDigit(c) == \E i \in 1..10 : Digits[i] = c
DigitVal(c) == (CHOOSE i \in 1..10 : Digits[i] = c) - 1
AllDigits(s) == \A i \in 1..Len(s) : IsDigit(s[i])

RECURSIVE DigitsToInt(_)
DigitsToInt(s) ==
    IF s = <<>> THEN 0
    ELSE 10 * DigitsToInt(SubSeq(s, 1, Len(s) - 1)) + DigitVal(s[Len(s)])

\* The first index of c in s, 0 when there is none
IndexOf(s, c) ==
    IF \E i \in 1..Len(s) : s[i] = c
    THEN CHOOSE i \in 1..Len(s) : s[i] = c /\ \A j \in 1..(i - 1) : s[j] # c
    ELSE 0

HasSign(s) == s # <<>> /\ Head(s) \in {"+", "-"}
SignOf(s) == IF s # <<>> /\ Head(s) = "-" THEN -1 ELSE 1
Unsigned(s) == IF HasSign(s) THEN Tail(s) ELSE s

Before(s, i) == IF i = 0 THEN s ELSE SubSeq(s, 1, i - 1)
After(s, i) == IF i = 0 THEN <<>> ELSE SubSeq(s, i + 1, Len(s))

\* A literal out of the binary64 range reads as inf or 0.0
ReadRange(sgn, r) ==
    IF Overflows(r) THEN Ok(Inf(sgn))
    ELSE IF Underflows(r) THEN Ok(Zero)
    ELSE Ok(r)

\* sign, integer digits, fraction digits, whether an exponent is written, exponent
ReadDigits(sgn, ip, fp, hasExp, expo) ==
    IF /\ AllDigits(ip) /\ AllDigits(fp) /\ Len(ip) + Len(fp) >= 1
       /\ hasExp => (Unsigned(expo) # <<>> /\ AllDigits(Unsigned(expo)))
    THEN ReadRange(sgn, Norm(sgn * DigitsToInt(ip \o fp), 1,
                             SignOf(expo) * DigitsToInt(Unsigned(expo)) - Len(fp)))
    ELSE Raise("ValueError")

ReadMantissa(sgn, mant, hasExp, expo) ==
    ReadDigits(sgn, Before(mant, IndexOf(mant, ".")), After(mant, IndexOf(mant, ".")),
               hasExp, expo)

ReadBody(sgn, body) ==
    IF body = <<"n", "a", "n">> THEN Ok(NaN)
    ELSE IF body = <<"i", "n", "f">> THEN Ok(Inf(sgn))
    ELSE ReadMantissa(sgn, Before(body, IndexOf(body, "e")),
                      IndexOf(body, "e") # 0, After(body, IndexOf(body, "e")))

ReadSigned(t) == ReadBody(SignOf(t), Unsigned(t))

\* float(text): raises ValueError for a text that is no number
ParseFloat(text) == ReadSigned(Strip(text))

-----------------------------------------------------------------------------
(* BMI logic *)

BMI_18_5 == Norm(185, 10, 0)
BMI_25_0 == Norm(25, 1, 0)
BMI_30_0 == Norm(30, 1, 0)

\* weight_kg / (height_m ** 2): an exception of ** leaves the expression
DivBy(weight_kg, sq) == IF sq.exc # "none" THEN sq ELSE Div(weight_kg, sq.v)

calculate_bmi(weight_kg, height_m) ==
    IF Le(height_m, Zero) THEN Raise("ValueError")
    ELSE DivBy(weight_kg, Square(height_m))

\* The bands closed at their upper end instead of their lower end
bmi_category_upper_inclusive(bmi) ==
    IF Le(bmi, BMI_18_5) THEN "Underweight"
    ELSE IF Le(bmi, BMI_25_0) THEN "Normal"
    ELSE IF Le(bmi, BMI_30_0) THEN "Overweight"
    ELSE "Obese"

bmi_category(bmi) ==
    IF Lt(bmi, BMI_18_5) THEN "Underweight"
    ELSE IF Lt(bmi, BMI_25_0) THEN "Normal"
    ELSE IF Lt(bmi, BMI_30_0) THEN "Overweight"
    ELSE "Obese"


-----------------------------------------------------------------------------
(* Database helpers.  db is the store, [users, records, user_seq,          *)
(* record_seq].  A helper opens its own connection and commits before it   *)
(* returns, so a helper that writes either takes effect whole or, when the *)
(* storage fails (fails = TRUE: disk full, file locked or read-only,       *)
(* sqlite3.OperationalError), not at all.  Storage failures are modelled   *)
(* at the helpers that write; the SELECTs of the repaint methods succeed.  *)

Range(f) == {f[i] : i \in DOMAIN f}

DbError == "sqlite3.OperationalError"

Db == [users |-> users, records |-> records, user_seq |-> user_seq,
       record_seq |-> record_seq]

\* The characters of the model in ASCII order, and lower-casing (NOCASE)
Alphabet == <<" ", "+", "-", ".", "0", "1", "2", "3", "4", "5", "6", "7", "8", "9",
              "A", "B", "a", "b", "c", "e", "f", "i", "n", "x">>

Rank(c) == CHOOSE i \in 1..Len(Alphabet) : Alphabet[i] = c
LowerChar(c) == IF c = "A" THEN "a" ELSE IF c = "B" THEN "b" ELSE c
NoCaseKey(name) == [i \in 1..Len(name) |-> Rank(LowerChar(name[i]))]

RECURSIVE KeyLess(_, _)
KeyLess(a, b) ==
    IF b = <<>> THEN FALSE
    ELSE IF a = <<>> THEN TRUE
    ELSE IF Head(a) # Head(b) THEN Head(a) < Head(b)
    ELSE KeyLess(Tail(a), Tail(b))

\* Rows with equal sort keys come in either rowid order
TieOrders == {"rowid", "reverse"}
IdBefore(i, j, tie) == IF tie = "rowid" THEN i < j ELSE j < i

\* WHERE name = ? COLLATE NOCASE
NameMatchNoCase(stored, name) == NoCaseKey(stored) = NoCaseKey(name)

\* WHERE name = ? (BINARY collation)
NameMatch(stored, name) == stored = name

Inserted(db, n) ==
    [db |-> [db EXCEPT !.users = @ \cup {[id |-> db.user_seq + 1, name |-> n]},
                       !.user_seq = @ + 1],
     user_id |-> db.user_seq + 1, exc |-> "none"]

\* row = c.fetchone(): the existing id when a row matched, else INSERT
FoundOrInserted(db, n, found) ==
    IF found # {}
    THEN [db |-> db, user_id |-> (CHOOSE u \in found : TRUE).id, exc |-> "none"]
    ELSE Inserted(db, n)

GetOrCreate(db, n, fails) ==
    IF n = <<>> THEN [db |-> db, user_id |-> 0, exc |-> "none"]
    ELSE IF fails THEN [db |-> db, user_id |-> 0, exc |-> DbError]
    ELSE FoundOrInserted(db, n, {u \in db.users : NameMatch(u.name, n)})

\* user_id 0 stands for None
get_or_create_user(db, name, fails) == GetOrCreate(db, Strip(name), fails)

\* A REAL NOT NULL column: SQLite binds nan as NULL
BindsNull(x) == x.k = "nan"

\* The INSERT with the weight and height parameters in each other's place
save_record_swapped(db, user_id, weight, height, bmi, category, now, fails) ==
    IF fails THEN [db |-> db, exc |-> DbError]
    ELSE IF BindsNull(weight) \/ BindsNull(height) \/ BindsNull(bmi)
         THEN [db |-> db, exc |-> "sqlite3.IntegrityError"]
    ELSE [db |-> [db EXCEPT !.records = @ \cup {[id |-> db.record_seq + 1,
                     user_id |-> user_id, date |-> now, weight_kg |-> height,
                     height_m |-> weight, bmi |-> bmi, category |-> category]},
                            !.record_seq = @ + 1],
          exc |-> "none"]

save_record(db, user_id, weight, height, bmi, category, now, fails) ==
    IF fails THEN [db |-> db, exc |-> DbError]
    ELSE IF BindsNull(weight) \/ BindsNull(height) \/ BindsNull(bmi)
         THEN [db |-> db, exc |-> "sqlite3.IntegrityError"]
    ELSE [db |-> [db EXCEPT !.records = @ \cup {[id |-> db.record_seq + 1,
                     user_id |-> user_id, date |-> now, weight_kg |-> weight,
                     height_m |-> height, bmi |-> bmi, category |-> category]},
                            !.record_seq = @ + 1],
          exc |-> "none"]

UserBefore(u, v, tie) ==
    \/ KeyLess(NoCaseKey(u.name), NoCaseKey(v.name))
    \/ NoCaseKey(u.name) = NoCaseKey(v.name) /\ IdBefore(u.id, v.id, tie)

FirstUser(S, tie) == CHOOSE u \in S : \A v \in S \ {u} : UserBefore(u, v, tie)

RECURSIVE SortUsers(_, _)
UsersFrom(first, S, tie) == <<first>> \o SortUsers(S \ {first}, tie)
SortUsers(S, tie) == IF S = {} THEN <<>> ELSE UsersFrom(FirstUser(S, tie), S, tie)

\* SELECT id, name FROM users ORDER BY name COLLATE NOCASE
fetch_users(db, tie) == SortUsers(db.users, tie)

RecordBefore(r, q, tie) ==
    r.date < q.date \/ (r.date = q.date /\ IdBefore(r.id, q.id, tie))

FirstRecord(S, tie) == CHOOSE r \in S : \A q \in S \ {r} : RecordBefore(r, q, tie)

RECURSIVE SortRecords(_, _)
RecordsFrom(first, S, tie) == <<first>> \o SortRecords(S \ {first}, tie)
SortRecords(S, tie) == IF S = {} THEN <<>> ELSE RecordsFrom(FirstRecord(S, tie), S, tie)

\* SELECT ... FROM records WHERE user_id = ? ORDER BY date
fetch_records_for_user(db, user_id, tie) ==
    SortRecords({r \in db.records : r.user_id = user_id}, tie)

\* The rows as dicts: the keys, in order, and the values
DictKeys == <<"id", "date", "weight_kg", "height_m", "bmi", "category">>

fetch_all_records_for_user_as_dicts(db, user_id, tie) ==
    fetch_records_for_user(db, user_id, tie)

-----------------------------------------------------------------------------
(* BMIApp: the widgets and the methods that repaint them.  g is the record *)
(* of the widget values.                                                   *)

View == [user_combo_var |-> user_combo_var, combo_values |-> combo_values,
         tree |-> tree, stat_mean |-> stat_mean, stat_min |-> stat_min,
         stat_max |-> stat_max, plot |-> plot]

\* The widgets as _build_left and _build_right leave them
InitialView == [user_combo_var |-> <<>>, combo_values |-> <<>>, tree |-> <<>>,
                stat_mean |-> NA, stat_min |-> NA, stat_max |-> NA, plot |-> <<>>]

clear_history_table(g) ==
    [g EXCEPT !.tree = <<>>, !.stat_mean = NA, !.stat_min = NA, !.stat_max = NA]

clear_plot(g) == [g EXCEPT !.plot = <<>>]

TreeRow(r) == [date |-> r.date, weight |-> Fmt2(r.weight_kg),
               height |-> Fmt2(r.height_m), bmi |-> Fmt2(r.bmi),
               category |-> r.category]

Bmis(rows) == [i \in 1..Len(rows) |-> rows[i].bmi]

Rows(rows) == [i \in 1..Len(rows) |-> TreeRow(rows[i])]

\* The statistics of a non-empty list of bmi values
WithStats(g, bmis) ==
    [g EXCEPT !.stat_mean = Fmt2(Mean(bmis)), !.stat_min = Fmt2(MinOf(bmis)),
              !.stat_max = Fmt2(MaxOf(bmis))]

Populated(g, rows) ==
    IF rows # <<>> THEN WithStats([g EXCEPT !.tree = Rows(rows)], Bmis(rows))
    ELSE g

populate_history_for_user(g, db, user_id, tie) ==
    Populated(clear_history_table(g), fetch_records_for_user(db, user_id, tie))

Points(rows) == [i \in 1..Len(rows) |-> [date |-> rows[i].date, bmi |-> rows[i].bmi]]

Plotted(g, rows) ==
    IF rows = <<>> THEN clear_plot(g) ELSE [g EXCEPT !.plot = Points(rows)]

plot_for_user(g, db, user_id, tie) ==
    Plotted(g, fetch_records_for_user(db, user_id, tie))

Names(rows) == [i \in 1..Len(rows) |-> rows[i].name]

Refreshed(g, names) ==
    IF g.user_combo_var \notin Range(names)
    THEN clear_plot(clear_history_table(
             [g EXCEPT !.combo_values = names, !.user_combo_var = <<>>]))
    ELSE [g EXCEPT !.combo_values = names]

refresh_users_dropdown(g, db, tie) == Refreshed(g, Names(fetch_users(db, tie)))

\* The id of the first fetched user named name, 0 (None) when there is none
FindUserId(rows, name) ==
    IF \E i \in 1..Len(rows) : rows[i].name = name
    THEN rows[CHOOSE i \in 1..Len(rows) :
                 rows[i].name = name /\ \A j \in 1..(i - 1) : rows[j].name # name].id
    ELSE 0

Shown(g, db, user_id, tie) ==
    IF user_id = 0 THEN g
    ELSE plot_for_user(populate_history_for_user(g, db, user_id, tie),
                       db, user_id, tie)

on_user_selected(g, db, tie) ==
    IF g.user_combo_var = <<>> THEN g
    ELSE Shown(g, db, FindUserId(fetch_users(db, tie), g.user_combo_var), tie)

-----------------------------------------------------------------------------
(* What the user can type *)

NameTexts == {<<" ", "a", " ">>, <<"A">>, <<" ">>}

\* <<weight text, height text>>
Measurements ==
    { <<<<"7", "4">>, <<"2">>>>,                        \* bmi 18.5
      <<<<"-", "5">>, <<" ", "2", ".", "0">>>>,         \* bmi -1.25
      <<<<"n", "a", "n">>, <<"2">>>>,
      <<<<"a", "b", "c">>, <<"2">>>>,
      <<<<"7", "4">>, <<"0">>>>,
      <<<<"7", "4">>, <<"1", "e", "-", "2", "0", "0">>>> }

-----------------------------------------------------------------------------
(* Event handlers *)

NoFile == [header |-> <<>>, rows |-> <<>>]

\* How a callback ended: the notification shown last ("none": none), the
\* user name its message gives, the exception raised in the callback
\* ("none": none), whether the callback caught it (FALSE: it left the
\* callback, to Tk's report_callback_exception), and the file it wrote
Ended(dialog, exc, caught, written) ==
    [dialog |-> dialog, about |-> <<>>, exc |-> exc, caught |-> caught,
     written |-> written]

\* showinfo("Saved", "Saved record for {name} ...")
SavedFor(name) == [Ended("Saved", "none", FALSE, NoFile) EXCEPT !.about = name]

Quiet == Ended("none", "none", FALSE, NoFile)

SetStore(db) ==
    /\ users' = db.users
    /\ records' = db.records
    /\ user_seq' = db.user_seq
    /\ record_seq' = db.record_seq

SetView(g) ==
    /\ user_combo_var' = g.user_combo_var
    /\ combo_values' = g.combo_values
    /\ tree' = g.tree
    /\ stat_mean' = g.stat_mean
    /\ stat_min' = g.stat_min
    /\ stat_max' = g.stat_max
    /\ plot' = g.plot

Computed(exc, weight, height, bmi) ==
    [exc |-> exc, weight |-> weight, height |-> height, bmi |-> bmi,
     cat |-> bmi_category(bmi)]

Calculated(w, h, b) == Computed(b.exc, w.v, h.v, b.v)

Parsed(w, h) ==
    IF w.exc # "none" THEN Computed(w.exc, NaN, NaN, NaN)
    ELSE IF h.exc # "none" THEN Computed(h.exc, NaN, NaN, NaN)
    ELSE Calculated(w, h, calculate_bmi(w.v, h.v))

\* The try block of both Calculate buttons: float(), float(), calculate_bmi,
\* bmi_category; exc is the exception that ended it ("none": none)
Compute(weightText, heightText) == Parsed(ParseFloat(weightText), ParseFloat(heightText))

Calculate(k) ==
    /\ IF k.exc # "none"
       THEN /\ outcome' = Ended("Input error", k.exc, TRUE, NoFile)
            /\ UNCHANGED labelVars
       ELSE /\ result_str' = Fmt2(k.bmi)
            /\ cat_str' = k.cat
            /\ outcome' = Quiet
    /\ UNCHANGED <<storeVars, viewVars, pandas_available, probe>>

on_calculate_only(weightText, heightText) == Calculate(Compute(weightText, heightText))

\* The save without its final repaint of the selected user
Reselected_never(g, db, name, tie) == g

Reselected(g, db, name, tie) ==
    IF g.user_combo_var = name THEN on_user_selected(g, db, tie) ELSE g

\* The view after a save: refresh_users_dropdown, then on_user_selected when
\* the saved user is the selected one
ViewAfterSave(g, db, name, tie) ==
    Reselected(refresh_users_dropdown(g, db, tie), db, name, tie)

\* After save_record returned s
Saved(u, s, name, k, tie) ==
    IF s.exc # "none"
    THEN /\ u.db.user_seq <= MaxUsers
         /\ SetStore(u.db)
         /\ outcome' = Ended("none", s.exc, FALSE, NoFile)
         /\ UNCHANGED <<viewVars, labelVars>>
    ELSE /\ s.db.user_seq <= MaxUsers
         /\ s.db.record_seq <= MaxRecords
         /\ SetStore(s.db)
         /\ result_str' = Fmt2(k.bmi)
         /\ cat_str' = k.cat
         /\ SetView(ViewAfterSave(View, s.db, name, tie))
         /\ outcome' = SavedFor(name)

\* After get_or_create_user returned u.  failsAt: the helper at which the
\* storage fails, 1 get_or_create_user, 2 save_record, 0 neither
UserFound(u, name, k, now, failsAt, tie) ==
    IF u.exc # "none"
    THEN /\ outcome' = Ended("none", u.exc, FALSE, NoFile)
         /\ UNCHANGED <<storeVars, viewVars, labelVars>>
    ELSE IF u.user_id = 0
    THEN /\ outcome' = Ended("User error", "none", FALSE, NoFile)
         /\ UNCHANGED <<storeVars, viewVars, labelVars>>
    ELSE Saved(u, save_record(u.db, u.user_id, k.weight, k.height, k.bmi, k.cat,
                              now, failsAt = 2),
               name, k, tie)

SaveAccepted(name, k, now, failsAt, tie) ==
    UserFound(get_or_create_user(Db, name, failsAt = 1), name, k, now, failsAt, tie)

Save(name, k) ==
    /\ IF name = <<>>
       THEN /\ outcome' = Ended("Missing name", "none", FALSE, NoFile)
            /\ UNCHANGED <<storeVars, viewVars, labelVars>>
       ELSE IF k.exc # "none"
       THEN /\ outcome' = Ended("Input error", k.exc, TRUE, NoFile)
            /\ UNCHANGED <<storeVars, viewVars, labelVars>>
       ELSE \E now \in 0..MaxClock, failsAt \in 0..2, tie \in TieOrders :
                SaveAccepted(name, k, now, failsAt, tie)
    /\ UNCHANGED <<pandas_available, probe>>

on_calculate_and_save(nameText, weightText, heightText) ==
    Save(Strip(nameText), Compute(weightText, heightText))

\* The Refresh Users button
RefreshUsers(tie) ==
    /\ SetView(refresh_users_dropdown(View, Db, tie))
    /\ outcome' = Quiet
    /\ UNCHANGED <<storeVars, labelVars, pandas_available, probe>>

\* The user picks the i-th name of the combobox: <<ComboboxSelected>>
SelectUser(i, tie) ==
    /\ SetView(on_user_selected([View EXCEPT !.user_combo_var = combo_values[i]],
                                Db, tie))
    /\ outcome' = Quiet
    /\ UNCHANGED <<storeVars, labelVars, pandas_available, probe>>

CsvKeys == <<"date", "weight_kg", "height_m", "bmi", "category">>

\* The float and text cells of a CSV row hold str(value): the value stands for it
CsvRow(keys, r) == [i \in 1..Len(keys) |-> r[keys[i]]]

\* pd.DataFrame(recs).to_csv(path, index=False)
PandasCsv(recs) ==
    [header |-> DictKeys, rows |-> [i \in 1..Len(recs) |-> CsvRow(DictKeys, recs[i])]]

\* csv.writer: writerow(header), then one writerow per record
ModuleCsv(recs) ==
    [header |-> CsvKeys, rows |-> [i \in 1..Len(recs) |-> CsvRow(CsvKeys, recs[i])]]

Written(recs) == IF pandas_available THEN PandasCsv(recs) ELSE ModuleCsv(recs)

Exported(name, user_id, recs, chosen, ioFails) ==
    IF name = <<>> THEN Ended("No user selected", "none", FALSE, NoFile)
    ELSE IF user_id = 0 THEN Ended("Error", "none", FALSE, NoFile)
    ELSE IF recs = <<>> THEN Ended("No records", "none", FALSE, NoFile)
    ELSE IF ~chosen THEN Quiet
    ELSE IF ioFails THEN Ended("Export error", "OSError", TRUE, NoFile)
    ELSE Ended("Exported", "none", FALSE, Written(recs))

ExportFor(name, user_id, chosen, ioFails, tie) ==
    Exported(name, user_id, fetch_all_records_for_user_as_dicts(Db, user_id, tie),
             chosen, ioFails)

ExportNamed(name, chosen, ioFails, tie) ==
    ExportFor(name, FindUserId(fetch_users(Db, tie), name), chosen, ioFails, tie)

\* chosen: the file dialog returned a path; ioFails: writing the file raises
export_history_csv(chosen, ioFails, tie) ==
    /\ outcome' = ExportNamed(Strip(user_combo_var), chosen, ioFails, tie)
    /\ UNCHANGED <<storeVars, viewVars, labelVars, pandas_available, probe>>

\* confirmed: the answer to askyesno; fails: the storage fails the DELETEs
\* DELETE FROM records; DELETE FROM users; commit
Wiped(db) == [db EXCEPT !.users = {}, !.records = {}]

Cleared(wiped, tie) ==
    /\ SetStore(wiped)
    /\ SetView(clear_plot(clear_history_table(refresh_users_dropdown(View, wiped, tie))))
    /\ outcome' = Ended("Cleared", "none", FALSE, NoFile)

clear_all_records(confirmed, fails, tie) ==
    /\ IF ~confirmed
       THEN /\ outcome' = Quiet
            /\ UNCHANGED <<storeVars, viewVars>>
       ELSE IF fails
       THEN /\ outcome' = Ended("Error", DbError, TRUE, NoFile)
            /\ UNCHANGED <<storeVars, viewVars>>
       ELSE Cleared(Wiped(Db), tie)
    /\ UNCHANGED <<labelVars, pandas_available, probe>>

\* The window is closed and the program started again on the same database
\* file: the module is imported, BMIApp.__init__ runs
Restart(pandas, tie) ==
    /\ pandas_available' = pandas
    /\ SetView(refresh_users_dropdown(InitialView, Db, tie))
    /\ result_str' = NA
    /\ cat_str' = "N/A"
    /\ outcome' = Quiet
    /\ UNCHANGED <<storeVars, probe>>

-----------------------------------------------------------------------------
(* The application *)

NoCall == [fn |-> "none", args |-> <<>>, out |-> Ok(Zero), cat |-> "none"]

\* A fresh database file, the window just built
Init ==
    /\ users = {}
    /\ records = {}
    /\ user_seq = 0
    /\ record_seq = 0
    /\ pandas_available \in BOOLEAN
    /\ user_combo_var = InitialView.user_combo_var
    /\ combo_values = InitialView.combo_values
    /\ tree = InitialView.tree
    /\ stat_mean = InitialView.stat_mean
    /\ stat_min = InitialView.stat_min
    /\ stat_max = InitialView.stat_max
    /\ plot = InitialView.plot
    /\ result_str = NA
    /\ cat_str = "N/A"
    /\ outcome = Quiet
    /\ probe = NoCall

CalculateOnly == \E m \in Measurements : on_calculate_only(m[1], m[2])

CalculateAndSave ==
    \E nameText \in NameTexts, m \in Measurements :
        on_calculate_and_save(nameText, m[1], m[2])

Refresh == \E tie \in TieOrders : RefreshUsers(tie)

Select == \E i \in DOMAIN combo_values, tie \in TieOrders : SelectUser(i, tie)

Export ==
    \E chosen \in BOOLEAN, ioFails \in BOOLEAN, tie \in TieOrders :
        export_history_csv(chosen, ioFails, tie)

ClearAll ==
    \E confirmed \in BOOLEAN, fails \in BOOLEAN, tie \in TieOrders :
        clear_all_records(confirmed, fails, tie)

Reopen == \E pandas \in BOOLEAN, tie \in TieOrders : Restart(pandas, tie)

Next ==
    \/ CalculateOnly
    \/ CalculateAndSave
    \/ Refresh
    \/ Select
    \/ Export
    \/ ClearAll
    \/ Reopen

Spec == Init /\ [][Next]_vars

-----------------------------------------------------------------------------
(* The domain functions called directly, on a grid of floats *)

Specials == {NaN, Inf(1), Inf(-1)}

FnWeights == {Norm(10 * i, 1, 0) : i \in -2..MaxWeight} \cup Specials

FnHeights ==
    {Norm(i, 4, 0) : i \in -2..MaxGrid} \cup Specials
        \cup {Norm(1, 1, -200), Norm(1, 1, -160), Norm(1, 1, 200)}

FnBmis ==
    {Norm(i, 2, 0) : i \in -4..(8 * MaxGrid)} \cup Specials
        \cup {Norm(i, 100, 0) : i \in {1849, 1851, 2499, 2501, 2999, 3001}}

CallCalculateBmi ==
    \E w \in FnWeights, h \in FnHeights :
        /\ probe' = [fn |-> "calculate_bmi", args |-> <<w, h>>,
                     out |-> calculate_bmi(w, h), cat |-> "none"]
        /\ UNCHANGED <<storeVars, viewVars, labelVars, pandas_available, outcome>>

CallBmiCategory ==
    \E b \in FnBmis :
        /\ probe' = [fn |-> "bmi_category", args |-> <<b>>, out |-> Ok(b),
                     cat |-> bmi_category(b)]
        /\ UNCHANGED <<storeVars, viewVars, labelVars, pandas_available, outcome>>

NextFn == CallCalculateBmi \/ CallBmiCategory

SpecFn == Init /\ [][NextFn]_vars

-----------------------------------------------------------------------------
(* Properties *)

\* weight / height^2 as a rational number, for finite weight and height # 0
ExactQuotient(w, h) == Norm(w.n * h.d * h.d, w.d * h.n * h.n, w.e - 2 * h.e)

\* height^2 as a rational number
ExactSquare(h) == Norm(h.n * h.n, h.d * h.d, 2 * h.e)

Representable(x) == ~Overflows(x) /\ ~Underflows(x)

\* C1: calculate_bmi(weight, height) fails with ValueError when height <= 0,
\* for every weight; for every other height it returns, and what it returns
\* for finite arguments is exactly weight / height^2 (wherever that quotient
\* and height^2 are binary64 magnitudes).
C1_Contract ==
    probe.fn = "calculate_bmi" =>
        IF Le(probe.args[2], Zero) THEN probe.out.exc = "ValueError"
        ELSE /\ probe.out.exc = "none"
             /\ ( /\ probe.args[1].k = "fin"
                  /\ probe.args[2].k = "fin"
                  /\ Representable(ExactSquare(probe.args[2]))
                  /\ Representable(ExactQuotient(probe.args[1], probe.args[2]))
                  => probe.out.v = ExactQuotient(probe.args[1], probe.args[2]) )

\* C2: bmi_category(bmi) is one of the four categories, with lower-inclusive
\* bands: Underweight below 18.5, Normal from 18.5 to below 25.0, Overweight
\* from 25.0 to below 30.0, Obese from 30.0 on.
C2_Bands ==
    probe.fn = "bmi_category" =>
        /\ probe.cat \in {"Underweight", "Normal", "Overweight", "Obese"}
        /\ Lt(probe.args[1], Norm(185, 10, 0)) => probe.cat = "Underweight"
        /\ Le(Norm(185, 10, 0), probe.args[1]) /\ Lt(probe.args[1], Norm(25, 1, 0))
               => probe.cat = "Normal"
        /\ Le(Norm(25, 1, 0), probe.args[1]) /\ Lt(probe.args[1], Norm(30, 1, 0))
               => probe.cat = "Overweight"
        /\ Le(Norm(30, 1, 0), probe.args[1]) => probe.cat = "Obese"

\* bmi_category was called on the boundary 25.0 and answered Overweight
C2_Witness ==
    /\ probe.fn = "bmi_category"
    /\ probe.args = <<Norm(25, 1, 0)>>
    /\ probe.cat = "Overweight"

\* The step added exactly the record r
AddsRecord(r) == r \notin records /\ records' = records \cup {r}

\* The step added exactly the user u
AddsUser(u) == u \notin users /\ users' = users \cup {u}

\* C3: a successful Calculate & Save for the trimmed name n adds exactly one
\* record row; when no user row has exactly the name n it also adds exactly
\* one user row, named n, which the record references; when a user row named
\* n exists the user rows stay as they are and the record references it.
C3_SaveCreatesOrReuses ==
    [][outcome'.dialog = "Saved" =>
          \E r \in records' :
              /\ AddsRecord(r)
              /\ IF \E u \in users : u.name = outcome'.about
                 THEN /\ users' = users
                      /\ \E u \in users : u.name = outcome'.about /\ u.id = r.user_id
                 ELSE \E u \in users' :
                          /\ AddsUser(u)
                          /\ u.name = outcome'.about
                          /\ u.id = r.user_id]_vars

\* A save has just reused the one user row for a second record
C3_Witness ==
    /\ outcome.dialog = "Saved"
    /\ Cardinality(users) = 1
    /\ Cardinality(records) = 2
    /\ \A r \in records : \E u \in users : u.id = r.user_id /\ u.name = outcome.about

\* C4: a save with a non-numeric or non-positive weight or height adds no
\* rows, so every record row has weight > 0 and height > 0.
C4_PositiveRecords ==
    \A r \in records : Lt(Zero, r.weight_kg) /\ Lt(Zero, r.height_m)

\* C5: every record row has bmi == weight / height^2 and
\* category == bmi_category(bmi), for the values of that row.
C5_RecordsConsistent ==
    \A r \in records :
        /\ Square(r.height_m).exc = "none"
        /\ Div(r.weight_kg, Square(r.height_m).v) = Ok(r.bmi)
        /\ r.category = bmi_category(r.bmi)

\* A record of weight 74 and height 2 is stored: bmi 18.5, on a band boundary
C5_Witness ==
    \E r \in records :
        /\ r.weight_kg = Norm(74, 1, 0)
        /\ r.height_m = Norm(2, 1, 0)
        /\ r.category = "Normal"

\* C6: rows are never modified and are removed only by a confirmed Clear All:
\* a successful save only adds rows, a Clear All that reports "Cleared" leaves
\* both tables empty, and every other callback run (Calculate Only, selection,
\* Refresh Users, Export, a failed save, a declined Clear All) leaves both
\* tables as they were.
C6_Frame ==
    [][/\ outcome'.dialog = "Saved" => users \subseteq users' /\ records \subseteq records'
       /\ outcome'.dialog = "Cleared" => users' = {} /\ records' = {}
       /\ outcome'.dialog \notin {"Saved", "Cleared"}
              => users' = users /\ records' = records]_vars

\* The records of the selected user
SelectedRecords ==
    {r \in records : \E u \in users : u.name = user_combo_var /\ u.id = r.user_id}

\* C7: a successful Export writes the header date,weight_kg,height_m,bmi,
\* category and one data row per stored record of the selected user, with
\* pandas and without.
C7_ExportFormat ==
    outcome.dialog = "Exported" =>
        /\ outcome.written.header = <<"date", "weight_kg", "height_m", "bmi", "category">>
        /\ Len(outcome.written.rows) = Cardinality(SelectedRecords)

\* C8: every failure of a user action is caught inside the callback and shown
\* as a modal notification.
C8_FailuresCaught ==
    outcome.exc # "none" => outcome.caught /\ outcome.dialog # "none"

\* The orders in which the records of S can be listed
Listings(S) ==
    {f \in [1..Cardinality(S) -> S] : \A i, j \in DOMAIN f : i # j => f[i] # f[j]}

InDateOrder(f) == \A i, j \in DOMAIN f : i < j => f[i].date <= f[j].date

StatsOf(bmis) == <<Fmt2(Mean(bmis)), Fmt2(MinOf(bmis)), Fmt2(MaxOf(bmis))>>

\* The table and the labels show the records f, in that order
Shows(f) ==
    /\ tree = [i \in DOMAIN f |->
                  [date |-> f[i].date, weight |-> Fmt2(f[i].weight_kg),
                   height |-> Fmt2(f[i].height_m), bmi |-> Fmt2(f[i].bmi),
                   category |-> f[i].category]]
    /\ <<stat_mean, stat_min, stat_max>> =
           IF f = <<>> THEN <<NA, NA, NA>>
           ELSE StatsOf([i \in DOMAIN f |-> f[i].bmi])

\* C9: the presentation agrees with the store: the selected name is empty or
\* the name of a user row; the table is empty when no user is selected and
\* otherwise lists exactly that user's records in date order; the labels read
\* N/A when the table is empty and otherwise the mean, min and max of the bmi
\* values of those records.
C9_Agree ==
    /\ user_combo_var = <<>> \/ \E u \in users : u.name = user_combo_var
    /\ user_combo_var = <<>> => tree = <<>>
    /\ \E f \in Listings(SelectedRecords) : InDateOrder(f) /\ Shows(f)

\* A save for the selected user has repainted the table with two records
C9_Witness ==
    /\ outcome.dialog = "Saved"
    /\ user_combo_var = outcome.about
    /\ Len(tree) = 2
    /\ stat_mean # NA

\* C10: no two user rows share a name, every record row references a user
\* row, and every user row has at least one record row.
C10_Integrity ==
    /\ \A u, v \in users : u.name = v.name => u = v
    /\ \A r \in records : \E u \in users : u.id = r.user_id
    /\ \A u \in users : \E r \in records : r.user_id = u.id

====
